---------------------------- MODULE Spec2Model ----------------------------
(***************************************************************************)
(* The bytecode compiler and the stack virtual machine of lust             *)
(* (src/src/eval.rs), over the syntax tree of src/src/parse.rs.            *)
(*                                                                         *)
(* Indices are the source's: instruction indices, stack indices and slot   *)
(* indices count from 0; the instruction at index i is instructions[i+1]  *)
(* and the stack word at index i is data[i+1].                             *)
(***************************************************************************)
EXTENDS Integers, Sequences, FiniteSets, TLC

VARIABLES
    ast,              \* main.rs: the syntax tree handed to compile
    overflow_checks,  \* the build: TRUE panics on integer overflow, FALSE wraps
    status,           \* "compiling", "running", "finished", "compile_panic", "eval_panic", "spinning"
    pgrm,             \* eval.rs Program: [instructions, syms]
    marks,            \* compile-time record of where each if / function was emitted
    pc,               \* eval: program counter
    sp,               \* eval: frame pointer
    data,             \* eval: the value stack
    out,              \* standard output of eval: the finished lines
    line,             \* standard output of eval: the line being written
    calls,            \* history: the calls that have not returned, innermost last
    last              \* history: the instruction just executed and the state before it

vars == <<ast, overflow_checks, status, pgrm, marks, pc, sp, data, out, line,
          calls, last>>

-----------------------------------------------------------------------------
(* Bounds of the model *)

\* the largest start argument of the recursive programs
MaxDepth == 4
\* the largest number of arguments of the generated print calls
MaxPrintArgs == 3
\* the cap on the value stack: an instruction that would grow it further is not taken
MaxData == 48
\* the lines of output a run is followed for
MaxOut == 8

(* i32 *)
MaxI32 == 2147483647
MinI32 == (-2147483647) - 1

-----------------------------------------------------------------------------
(* The syntax tree: parse.rs *)

Number(digits) == [kind |-> "Number", digits |-> digits]
Identifier(name) == [kind |-> "Identifier", name |-> name]
BinaryOperation(operator, left, right) ==
    [kind |-> "BinaryOperation", operator |-> operator, left |-> left, right |-> right]
FunctionCall(name, arguments) ==
    [kind |-> "FunctionCall", name |-> name, arguments |-> arguments]

ExpressionStatement(e) == [kind |-> "Expression", expression |-> e]
If(test, body) == [kind |-> "If", test |-> test, body |-> body]
FunctionDeclaration(name, parameters, body) ==
    [kind |-> "FunctionDeclaration", name |-> name, parameters |-> parameters,
     body |-> body]
Return(e) == [kind |-> "Return", expression |-> e]
Local(name, e) == [kind |-> "Local", name |-> name, expression |-> e]

\* The text of a Number token is a non-empty run of decimal digits (lex_number).
RECURSIVE DigitsOf(_)
DigitsOf(n) == IF n < 10 THEN <<n>> ELSE Append(DigitsOf(n \div 10), n % 10)
Num(n) == Number(DigitsOf(n))

-----------------------------------------------------------------------------
(* Integer arithmetic of the source's widths *)

\* str::parse::<i32> on a run of digits: Err (here -1) when the value exceeds i32
RECURSIVE parse_i32_from(_, _, _)
parse_i32_from(digits, i, acc) ==
    IF i > Len(digits) THEN acc
    ELSE IF acc > (MaxI32 - digits[i]) \div 10 THEN -1
    ELSE parse_i32_from(digits, i + 1, acc * 10 + digits[i])
parse_i32(digits) == parse_i32_from(digits, 1, 0)

\* i32 addition: [ok |-> no overflow, v |-> the wrapped result]
add_i32(a, b) ==
    IF b > 0 /\ a > MaxI32 - b
        THEN [ok |-> FALSE, v |-> ((a - MaxI32) - 1) + ((b - MaxI32) - 1)]
    ELSE IF b < 0 /\ a < MinI32 - b
        THEN [ok |-> FALSE, v |-> ((a + MaxI32) + 1) + ((b + MaxI32) + 1)]
    ELSE [ok |-> TRUE, v |-> a + b]

\* i32 subtraction: [ok |-> no overflow, v |-> the wrapped result]
sub_i32(a, b) ==
    IF b < 0 /\ a > MaxI32 + b
        THEN [ok |-> FALSE, v |-> ((a - MaxI32) - 1) - ((b + MaxI32) + 1)]
    ELSE IF b > 0 /\ a < MinI32 + b
        THEN [ok |-> FALSE, v |-> ((a + MaxI32) + 1) - ((b - MaxI32) - 1)]
    ELSE [ok |-> TRUE, v |-> a - b]

-----------------------------------------------------------------------------
(* Instructions and symbols: eval.rs 4-30 *)

DupPlusSP(i) == [op |-> "DupPlusSP", i |-> i]
MoveMinusSP(local_offset, sp_offset) ==
    [op |-> "MoveMinusSP", local_offset |-> local_offset, sp_offset |-> sp_offset]
MovePlusSP(i) == [op |-> "MovePlusSP", i |-> i]
Store(n) == [op |-> "Store", n |-> n]
ReturnInstruction == [op |-> "Return"]
JumpIfNotZero(label) == [op |-> "JumpIfNotZero", label |-> label]
Jump(label) == [op |-> "Jump", label |-> label]
Call(label, narguments) == [op |-> "Call", label |-> label, narguments |-> narguments]
AddInstruction == [op |-> "Add"]
SubtractInstruction == [op |-> "Subtract"]
LessThanInstruction == [op |-> "LessThan"]

Symbol(location, narguments, nlocals) ==
    [location |-> location, narguments |-> narguments, nlocals |-> nlocals]

\* an insert that is lost
Insert_lost(map, key, value) == map

\* HashMap::insert
Insert(map, key, value) ==
    [k \in (DOMAIN map) \cup {key} |-> IF k = key THEN value ELSE map[k]]

EmptyMap == [k \in {} |-> 0]

-----------------------------------------------------------------------------
(* The compiler: eval.rs 32-225.  The compile state c is                   *)
(*   instructions, syms : the Program being built                          *)
(*   locals             : the local-name table in force                    *)
(*   panic              : "" or the panic that ended compilation           *)
(*   marks              : for each if and function declaration compiled,   *)
(*                        the indices it was emitted at; for each insert   *)
(*                        into a local-name table, the name and the slot;  *)
(*                        for each expression statement, its expression    *)
(*                        and the indices of its code; for each insert     *)
(*                        into the symbol table, the name and the symbol   *)
(*   scope              : the local-name table in force: the index of the  *)
(*                        guard Jump of the function being compiled, -1    *)
(*                        at top level                                     *)

Emit(c, instruction) ==
    [c EXCEPT !.instructions = Append(@, instruction)]

Panic(c, why) == [c EXCEPT !.panic = why]

\* the record of syms.insert(name, symbol) made for the construct whose
\* first instruction is at index owner
LabelMark(name, owner, symbol) ==
    [kind |-> "label", name |-> name, owner |-> owner, symbol |-> symbol]

\* the record of locals.insert(name, index) on the table of scope
SlotMark(scope, name, index) ==
    [kind |-> "slot", name |-> name, guard |-> scope, entry |-> index,
     narguments |-> 0, after |-> 0]

\* format!("function_done_{}", n) and format!("if_else_{}", n)
function_done_label(n) == "function_done_" \o ToString(n)
if_else_label(n) == "if_else_" \o ToString(n)

\* a label registered at the address after the body
if_label_location_after(len) == len

\* compile_if: the location registered for the if_else label, given the
\* number of instructions emitted once the body is compiled
if_label_location(len) == len - 1

\* an entry sequence that counts the arguments from the wrong end
parameter_sp_offset_reversed(narguments, i) == i

\* compile_declaration: the caller offset of BindArgument for parameter i
\* (0-based) of narguments
parameter_sp_offset(narguments, i) == narguments - (i + 1)

\* compile_local: the slot index given to a new local
local_index(locals) == Cardinality(DOMAIN locals)

RECURSIVE compile_expression(_, _)
RECURSIVE compile_arguments(_, _, _)
RECURSIVE compile_statement(_, _)
RECURSIVE compile_statements(_, _, _)

compile_binary_operation(c, bop) ==
    LET l == compile_expression(c, bop.left)
        r == compile_expression(l, bop.right)
    IN  IF r.panic # "" THEN r
        ELSE IF bop.operator = "+" THEN Emit(r, AddInstruction)
        ELSE IF bop.operator = "-" THEN Emit(r, SubtractInstruction)
        ELSE IF bop.operator = "<" THEN Emit(r, LessThanInstruction)
        ELSE Panic(r, "Unable to compile binary operation:")

\* for arg in fc.arguments
compile_arguments(c, arguments, i) ==
    IF i > Len(arguments) \/ c.panic # "" THEN c
    ELSE compile_arguments(compile_expression(c, arguments[i]), arguments, i + 1)

compile_function_call(c, fc) ==
    LET len == Len(fc.arguments)
        a == compile_arguments(c, fc.arguments, 1)
    IN  IF a.panic # "" THEN a
        ELSE Emit(a, Call(fc.name, len))

\* a table that gives slot 0 to a name it does not hold
lookup_local_default(locals, name) ==
    IF name \in DOMAIN locals THEN locals[name] ELSE 0

\* eval.rs 88: locals[&ident.value]; -1 when the key is missing (the index
\* operator of HashMap panics)
lookup_local(locals, name) ==
    IF name \in DOMAIN locals THEN locals[name] ELSE -1

compile_literal(c, lit) ==
    IF lit.kind = "Number"
    THEN LET n == parse_i32(lit.digits)
         IN  IF n < 0 THEN Panic(c, "called Result::unwrap() on an Err value")
             ELSE Emit(c, Store(n))
    ELSE LET slot == lookup_local(c.locals, lit.name)
         IN  IF slot < 0 THEN Panic(c, "key not found in locals")
             ELSE Emit(c, DupPlusSP(slot))

compile_expression(c, exp) ==
    IF c.panic # "" THEN c
    ELSE IF exp.kind = "BinaryOperation" THEN compile_binary_operation(c, exp)
    ELSE IF exp.kind = "FunctionCall" THEN compile_function_call(c, exp)
    ELSE compile_literal(c, exp)

\* for stmt in body
compile_statements(c, body, i) ==
    IF i > Len(body) \/ c.panic # "" THEN c
    ELSE compile_statements(compile_statement(c, body[i]), body, i + 1)

\* a declaration that hands the table of its body back to the enclosing scope
enclosing_locals_leaked(outer, inner) == inner

\* eval.rs 115: compile_declaration takes the table of the enclosing scope
\* as `_` and never writes it: the table in force after the declaration,
\* given that table and the table of the body
enclosing_locals(outer, inner) == outer

compile_declaration(c, fd) ==
    LET guard == Len(c.instructions)
        done_label == function_done_label(guard)
        c1 == Emit(c, Jump(done_label))
        function_index == Len(c1.instructions)
        narguments == Len(fd.parameters)
        binds == [i \in 1..narguments |->
                    MoveMinusSP(i - 1, parameter_sp_offset(narguments, i - 1))]
        \* new_locals.insert(param, i): the last parameter of a name wins
        new_locals == [p \in {fd.parameters[i] : i \in 1..narguments} |->
                         CHOOSE i \in 0..(narguments - 1) :
                            /\ fd.parameters[i + 1] = p
                            /\ \A j \in (i + 1)..(narguments - 1) :
                                  fd.parameters[j + 1] # p]
        c2 == [c1 EXCEPT !.instructions = @ \o binds, !.locals = new_locals,
                         !.scope = guard,
                         !.marks = @ \o [i \in 1..narguments |->
                                           SlotMark(guard, fd.parameters[i], i - 1)]]
        c3 == compile_statements(c2, fd.body, 1)
        after == Len(c3.instructions)
        symbol == Symbol(function_index, narguments,
                         Cardinality(DOMAIN c3.locals))
        done == Symbol(after, 0, 0)
        syms1 == Insert(c3.syms, fd.name, symbol)
        syms2 == Insert(syms1, done_label, done)
    IN  IF c3.panic # "" THEN c3
        ELSE [c3 EXCEPT !.syms = syms2,
                        !.locals = enclosing_locals(c.locals, c3.locals),
                        !.scope = c.scope,
                        !.marks = Append(@ \o << LabelMark(fd.name, guard, symbol),
                                                 LabelMark(done_label, guard, done) >>,
                                         [kind |-> "function",
                                             name |-> fd.name,
                                             guard |-> guard,
                                             entry |-> function_index,
                                             narguments |-> narguments,
                                             after |-> after,
                                             parameters |-> fd.parameters,
                                             seed |-> new_locals,
                                             outer |-> c.locals,
                                             restored |->
                                                enclosing_locals(c.locals,
                                                                 c3.locals)])]

compile_return(c, ret) ==
    LET e == compile_expression(c, ret.expression)
    IN  IF e.panic # "" THEN e ELSE Emit(e, ReturnInstruction)

compile_if(c, if_) ==
    LET t == compile_expression(c, if_.test)
        branch == Len(t.instructions)
        done_label == if_else_label(branch)
        c1 == Emit(t, JumpIfNotZero(done_label))
        c2 == compile_statements(c1, if_.body, 1)
        after == Len(c2.instructions)
        done == Symbol(if_label_location(after), 0, 0)
    IN  IF t.panic # "" THEN t
        ELSE IF c2.panic # "" THEN c2
        ELSE [c2 EXCEPT !.syms = Insert(@, done_label, done),
                        !.marks = Append(Append(@, LabelMark(done_label, branch, done)),
                                         [kind |-> "if",
                                             name |-> done_label,
                                             guard |-> branch,
                                             entry |-> branch + 1,
                                             narguments |-> 0,
                                             after |-> after])]

compile_local(c, local) ==
    LET index == local_index(c.locals)
        c1 == [c EXCEPT !.locals = Insert(@, local.name, index),
                        !.marks = Append(@, SlotMark(c.scope, local.name, index))]
        e == compile_expression(c1, local.expression)
    IN  IF e.panic # "" THEN e ELSE Emit(e, MovePlusSP(index))

\* the record of an expression statement: its code is instructions
\* guard .. after - 1
ExpressionMark(e, guard, after) ==
    [kind |-> "expression", expression |-> e, guard |-> guard, after |-> after]

\* an expression statement that pushes a second word
compile_expression_statement_twice(c, e) ==
    LET r == compile_expression(c, e)
    IN  IF r.panic # "" THEN r
        ELSE [Emit(r, Store(0)) EXCEPT
                 !.marks = Append(@, ExpressionMark(e, Len(c.instructions),
                                                    Len(r.instructions) + 1))]

\* eval.rs 210: Statement::Expression(e) => compile_expression(..., e)
compile_expression_statement(c, e) ==
    LET r == compile_expression(c, e)
    IN  IF r.panic # "" THEN r
        ELSE [r EXCEPT !.marks = Append(@, ExpressionMark(e, Len(c.instructions),
                                                          Len(r.instructions)))]

compile_statement(c, stmt) ==
    IF c.panic # "" THEN c
    ELSE IF stmt.kind = "FunctionDeclaration" THEN compile_declaration(c, stmt)
    ELSE IF stmt.kind = "Return" THEN compile_return(c, stmt)
    ELSE IF stmt.kind = "If" THEN compile_if(c, stmt)
    ELSE IF stmt.kind = "Local" THEN compile_local(c, stmt)
    ELSE compile_expression_statement(c, stmt.expression)

compile(tree) ==
    compile_statements([instructions |-> <<>>, syms |-> EmptyMap,
                        locals |-> EmptyMap, panic |-> "", marks |-> <<>>,
                        scope |-> -1],
                       tree, 1)

-----------------------------------------------------------------------------
(* The virtual machine: eval.rs 227-333 *)

Top(d) == d[Len(d)]
Take(d, n) == SubSeq(d, 1, n)
Pop(d) == Take(d, Len(d) - 1)
\* a zero fill that is one word short
Zeros_short(n) == [i \in 1..(n - 1) |-> 0]
Zeros(n) == [i \in 1..n |-> 0]
Reverse(s) == [i \in 1..Len(s) |-> s[Len(s) + 1 - i]]

Instructions == pgrm.instructions
Running == status = "running" /\ pc >= 0 /\ pc < Len(Instructions)
Instr == Instructions[pc + 1]
At(name) == Running /\ Instr.op = name

\* the expression statements of the compiled program
ExpressionMarks ==
    {m \in {marks[i] : i \in 1..Len(marks)} : m.kind = "expression"}

\* the expression statements in progress, innermost last, once the
\* instruction just executed is accounted for: a statement is no longer
\* clean when a call it made has returned and that call was passed another
\* number of arguments than its callee declares, or is not intact
Settled ==
    LET open == last.open
        made == last.calls[Len(last.calls)]
    IN  IF /\ open # <<>> /\ last.op = "Return" /\ last.calls # <<>>
           /\ Len(last.calls) = open[Len(open)].level + 1
           /\ ~(made.k = made.a /\ made.intact)
        THEN [open EXCEPT ![Len(open)].clean = FALSE]
        ELSE open

\* the statements in progress when the instruction at pc is fetched: the
\* innermost one is finished when pc has reached the end of its code in the
\* frame it was started in, and the statement whose code starts at pc begins
\* (a statement of the same or a deeper frame that is still open then was
\* abandoned)
Open ==
    LET settled == Settled
        done == /\ settled # <<>>
                /\ settled[Len(settled)].mark.after = pc
                /\ settled[Len(settled)].level = Len(calls)
        rest == IF done THEN Pop(settled) ELSE settled
        starting == {m \in ExpressionMarks : m.guard = pc}
        Outer(r) == r.level < Len(calls)
    IN  IF status = "running" /\ starting # {}
        THEN Append(SelectSeq(rest, Outer),
                          [mark |-> CHOOSE m \in starting : TRUE,
                           level |-> Len(calls), depth |-> Len(data),
                           clean |-> TRUE])
        ELSE rest

\* the record kept of the instruction being executed and the state it starts from
Before(name, empty_pops) ==
    [op |-> name, pc |-> pc, sp |-> sp, data |-> data, calls |-> calls,
     out |-> out, empty_pops |-> empty_pops, open |-> Open]

\* a panic ends the process: no register or stack word is observed afterwards
PanicAt(name) ==
    /\ status' = "eval_panic"
    /\ last' = Before(name, 0)
    /\ UNCHANGED <<pc, sp, data, calls>>

Static == UNCHANGED <<ast, overflow_checks, pgrm, marks>>

\* the history of calls once an instruction has broken into the frames below
\* it: no call still in progress is intact any more
Spoil(cs) == [i \in 1..Len(cs) |-> [cs[i] EXCEPT !.intact = FALSE]]

\* the history cs after an instruction whose pops take the stack down to
\* length low while the frame pointer is fp: a pop below the frame pointer
\* takes a word that belongs to the frames of the calls in progress
Kept(cs, low, fp) == IF low < fp THEN Spoil(cs) ELSE cs
Keep(low) == Kept(calls, low, sp)

\* main.rs 28-32: compile, then eval; eval.rs 228-230
Compile ==
    /\ status = "compiling"
    /\ LET c == compile(ast)
       IN  /\ pgrm' = [instructions |-> c.instructions, syms |-> c.syms]
           /\ marks' = c.marks
           /\ status' = IF c.panic = "" THEN "running" ELSE "compile_panic"
    /\ pc' = 0 /\ sp' = 0 /\ data' = <<>>
    /\ last' = Before("compile", 0)
    /\ UNCHANGED <<ast, overflow_checks, out, line, calls>>

\* eval.rs 232: the loop ends when pc is past the last instruction
Exit ==
    /\ status = "running"
    /\ pc >= Len(Instructions)
    /\ status' = "finished"
    /\ last' = Before("exit", 0)
    /\ UNCHANGED <<pc, sp, data, out, line, calls>>
    /\ Static

\* eval.rs 233: instructions[pc as usize] with a negative pc
FetchOutOfRange ==
    /\ status = "running"
    /\ pc < 0
    /\ PanicAt("fetch")
    /\ UNCHANGED <<out, line>>
    /\ Static

\* eval.rs 235: the index (sp + i) as usize; -1 when it cannot index the stack
dup_index(fp, i, len) ==
    IF fp > MaxI32 - i THEN -1
    ELSE IF fp + i < 0 \/ fp + i >= len THEN -1
    ELSE fp + i

\* eval.rs 234-237
Exec_DupPlusSP ==
    /\ At("DupPlusSP")
    /\ Len(data) < MaxData
    /\ LET index == dup_index(sp, Instr.i, Len(data))
       IN  IF index < 0
           THEN PanicAt("DupPlusSP")
           ELSE /\ data' = Append(data, data[index + 1])
                /\ pc' = pc + 1
                /\ last' = Before("DupPlusSP", 0)
                /\ UNCHANGED <<status, sp, calls>>
    /\ UNCHANGED <<out, line>>
    /\ Static

\* eval.rs 239: the stack index the argument is read from
argument_index(fp, sp_offset) == fp - (sp_offset + 4)

\* a slot counted downwards from the frame pointer
local_slot_below(fp, local_offset) == fp - (local_offset + 1)

\* eval.rs 239: sp as usize + local_offset, the stack index the argument is
\* written to
local_slot(fp, local_offset) == fp + local_offset

\* eval.rs 238-241
Exec_MoveMinusSP ==
    /\ At("MoveMinusSP")
    /\ LET src == IF sp < 0 THEN -1 ELSE argument_index(sp, Instr.sp_offset)
           dst == local_slot(sp, Instr.local_offset)
       IN  IF sp < 0 \/ src < 0 \/ src >= Len(data) \/ dst >= Len(data)
           THEN PanicAt("MoveMinusSP")
           ELSE /\ data' = [data EXCEPT ![dst + 1] = data[src + 1]]
                /\ pc' = pc + 1
                /\ last' = Before("MoveMinusSP", 0)
                /\ UNCHANGED <<status, sp, calls>>
    /\ UNCHANGED <<out, line>>
    /\ Static

\* eval.rs 244: sp as usize + i.  A negative sp is a huge usize: the sum either
\* stays out of reach (-1: the stack would be grown until allocation fails) or
\* overflows usize (-2 under overflow checks, else the wrapped index).
slot_index(fp, i, checks) ==
    IF fp >= 0 THEN fp + i
    ELSE IF fp + i < 0 THEN -1
    ELSE IF checks THEN -2
    ELSE fp + i

\* a store that pushes the value back instead of writing the slot
store_slot_pushed(d, index, val) == Append(d, val)

\* eval.rs 246-249: the stack once slot index holds val
store_slot(d, index, val) ==
    LET grown == IF index >= Len(d) THEN d \o Zeros(index + 1 - Len(d)) ELSE d
    IN  [grown EXCEPT ![index + 1] = val]

\* eval.rs 242-251
Exec_MovePlusSP ==
    /\ At("MovePlusSP")
    /\ IF data = <<>>
       THEN PanicAt("MovePlusSP")
       ELSE LET val == Top(data)
                index == slot_index(sp, Instr.i, overflow_checks)
            IN  IF index < 0
                THEN PanicAt("MovePlusSP")
                ELSE /\ index < MaxData
                     /\ data' = store_slot(Pop(data), index, val)
                     /\ pc' = pc + 1
                     /\ calls' = Keep(Len(data) - 1)
                     /\ last' = Before("MovePlusSP", 0)
                     /\ UNCHANGED <<status, sp>>
    /\ UNCHANGED <<out, line>>
    /\ Static

\* eval.rs 254-257: the next pc of a branch whose popped value is top
branch_target(top, location, here) ==
    IF top = 0 THEN location + 1 ELSE here + 1

\* eval.rs 252-258
Exec_JumpIfNotZero ==
    /\ At("JumpIfNotZero")
    /\ IF data = <<>>
       THEN PanicAt("JumpIfNotZero")
       ELSE IF Top(data) = 0 /\ Instr.label \notin DOMAIN pgrm.syms
       THEN PanicAt("JumpIfNotZero")
       ELSE /\ data' = Pop(data)
            /\ pc' = branch_target(Top(data),
                                   IF Top(data) = 0
                                   THEN pgrm.syms[Instr.label].location ELSE 0,
                                   pc)
            /\ calls' = Keep(Len(data) - 1)
            /\ last' = Before("JumpIfNotZero", 0)
            /\ UNCHANGED <<status, sp>>
    /\ UNCHANGED <<out, line>>
    /\ Static

\* eval.rs 259-261
Exec_Jump ==
    /\ At("Jump")
    /\ IF Instr.label \notin DOMAIN pgrm.syms
       THEN PanicAt("Jump")
       ELSE /\ pc' = pgrm.syms[Instr.label].location
            /\ last' = Before("Jump", 0)
            /\ UNCHANGED <<status, sp, data, calls>>
    /\ UNCHANGED <<out, line>>
    /\ Static

\* eval.rs 266-268: the stack with the callee's frame removed
drop_frame(d, fp) == IF fp < Len(d) THEN Take(d, fp) ELSE d

\* a Return that leaves the arguments on the stack
drop_arguments_none(d, narguments) == d

\* eval.rs 276-279: the stack with narguments words popped; a pop of the
\* empty stack is not unwrapped and removes nothing
drop_arguments(d, narguments) ==
    IF narguments <= 0 THEN d
    ELSE IF narguments >= Len(d) THEN <<>>
    ELSE Take(d, Len(d) - narguments)

\* eval.rs 276-279: the pops of that loop that found the stack empty
empty_pops_of(d, narguments) ==
    IF narguments > Len(d) THEN narguments - Len(d) ELSE 0

\* a Return that pops the saved fp before the saved return address
saved_words_swapped(d) ==
    [narguments |-> d[Len(d)], pc |-> d[Len(d) - 2], sp |-> d[Len(d) - 1]]

\* eval.rs 271-273: the three saved words of the frame whose stack is d,
\* as the registers they are restored to
saved_words(d) ==
    [narguments |-> d[Len(d)], pc |-> d[Len(d) - 1], sp |-> d[Len(d) - 2]]

\* eval.rs 262-283
Exec_Return ==
    /\ At("Return")
    /\ IF data = <<>>
       THEN PanicAt("Return")
       ELSE IF sp < 0
       THEN \* eval.rs 266-268: sp < data.len() holds forever; pop() of the
            \* empty stack is not unwrapped
            /\ status' = "spinning"
            /\ last' = Before("Return", 0)
            /\ UNCHANGED <<pc, sp, data, calls>>
       ELSE LET ret == Top(data)
                d1 == drop_frame(Pop(data), sp)
            IN  IF Len(d1) < 3
                THEN PanicAt("Return")
                ELSE LET saved == saved_words(d1)
                         d2 == Take(d1, Len(d1) - 3)
                     IN  /\ pc' = saved.pc
                         /\ sp' = saved.sp
                         /\ data' = Append(drop_arguments(d2, saved.narguments), ret)
                         /\ calls' = IF calls = <<>> THEN calls
                                     ELSE Kept(Pop(Keep(Len(data) - 1)),
                                               Len(d2) - saved.narguments,
                                               saved.sp)
                         /\ last' = [Before("Return",
                                             empty_pops_of(d2, saved.narguments))
                                      EXCEPT !.calls = Keep(Len(data) - 1)]
                         /\ UNCHANGED status
    /\ UNCHANGED <<out, line>>
    /\ Static

\* a print that writes the values in the order they were pushed
print_values_pushed(d, narguments) ==
    IF narguments >= Len(d) THEN d
    ELSE SubSeq(d, Len(d) - narguments + 1, Len(d))

\* eval.rs 287-291: the values print writes, in the order it writes them,
\* when the stack is d and it is called with narguments
print_values(d, narguments) ==
    IF narguments >= Len(d) THEN Reverse(d)
    ELSE Reverse(SubSeq(d, Len(d) - narguments + 1, Len(d)))

\* a print that pops one value whatever its argument count
print_rest_one(d, narguments) == Take(d, Len(d) - 1)

\* eval.rs 287-288: the stack once print has popped its narguments values
print_rest(d, narguments) == Take(d, Len(d) - narguments)

\* eval.rs 284-294: the builtin
Exec_Call_print ==
    /\ At("Call")
    /\ Instr.label = "print"
    /\ IF Len(data) < Instr.narguments
       THEN /\ line' = line \o print_values(data, Instr.narguments)
            /\ PanicAt("print")
            /\ UNCHANGED out
       ELSE /\ Len(out) < MaxOut
            /\ out' = Append(out, line \o print_values(data, Instr.narguments))
            /\ line' = <<>>
            /\ data' = print_rest(data, Instr.narguments)
            /\ pc' = pc + 1
            /\ calls' = Keep(Len(data) - Instr.narguments)
            /\ last' = Before("print", 0)
            /\ UNCHANGED <<status, sp>>
    /\ Static

\* a Call that saves the argument count of the call site
saved_narguments_site(symbol, narguments) == narguments

\* eval.rs 298: the argument count Call saves for Return, given the symbol
\* of the callee and the count of the Call instruction
saved_narguments(symbol, narguments) == symbol.narguments

\* a Call that saves its own address as the return address
frame_words_same_pc(fp, here, symbol) == <<fp, here, symbol.narguments>>

\* eval.rs 296-298: the words Call pushes below the new frame
frame_words(fp, here, symbol) ==
    <<fp, here + 1, saved_narguments(symbol, Instr.narguments)>>

\* the history's record of a call: where it was made, the registers and the
\* stack it must give back, and whether it is intact: no instruction executed
\* since has popped a word below the frame pointer (for a Return, the frame
\* pointer it restores)
CallRecord(symbol) ==
    LET k == Instr.narguments
        n == IF k > Len(data) THEN Len(data) ELSE k
    IN  [site |-> pc, fp |-> sp, k |-> k, a |-> symbol.narguments,
         loc |-> symbol.location, nlocals |-> symbol.nlocals,
         frame |-> Len(data) + 3,
         base |-> Take(data, Len(data) - n),
         args |-> SubSeq(data, Len(data) - n + 1, Len(data)),
         intact |-> TRUE]

\* eval.rs 284, 296-308: a user function
Exec_Call ==
    /\ At("Call")
    /\ Instr.label # "print"
    /\ IF Instr.label \notin DOMAIN pgrm.syms
       THEN PanicAt("Call")
       ELSE LET symbol == pgrm.syms[Instr.label]
            IN  /\ Len(data) + 3 + symbol.nlocals <= MaxData
                /\ data' = (data \o frame_words(sp, pc, symbol))
                              \o Zeros(symbol.nlocals)
                /\ pc' = symbol.location
                /\ sp' = Len(data) + 3
                /\ calls' = Append(calls, CallRecord(symbol))
                /\ last' = Before("Call", 0)
                /\ UNCHANGED status
    /\ UNCHANGED <<out, line>>
    /\ Static

\* arithmetic that takes the value popped first as the left operand
binary_result_swapped(op, left, right) ==
    IF op = "Add" THEN add_i32(right, left)
    ELSE IF op = "Subtract" THEN sub_i32(right, left)
    ELSE [ok |-> TRUE, v |-> IF right < left THEN 1 ELSE 0]

\* eval.rs 309-326: the value an arithmetic instruction pushes, as
\* [ok |-> no i32 overflow, v |-> the (wrapped) value]
binary_result(op, left, right) ==
    IF op = "Add" THEN add_i32(left, right)
    ELSE IF op = "Subtract" THEN sub_i32(left, right)
    ELSE [ok |-> TRUE, v |-> IF left < right THEN 1 ELSE 0]

\* eval.rs 309-326: right is popped first, then left
Binary(op) ==
    /\ At(op)
    /\ IF Len(data) < 2
       THEN PanicAt(op)
       ELSE LET right == data[Len(data)]
                left == data[Len(data) - 1]
                r == binary_result(op, left, right)
            IN  IF ~r.ok /\ overflow_checks
                THEN PanicAt(op)
                ELSE /\ data' = Append(Take(data, Len(data) - 2), r.v)
                     /\ pc' = pc + 1
                     /\ calls' = Keep(Len(data) - 2)
                     /\ last' = Before(op, 0)
                     /\ UNCHANGED <<status, sp>>
    /\ UNCHANGED <<out, line>>
    /\ Static

Exec_Add == Binary("Add")
Exec_Subtract == Binary("Subtract")
Exec_LessThan == Binary("LessThan")

\* eval.rs 327-330
Exec_Store ==
    /\ At("Store")
    /\ Len(data) < MaxData
    /\ data' = Append(data, Instr.n)
    /\ pc' = pc + 1
    /\ last' = Before("Store", 0)
    /\ UNCHANGED <<status, sp, calls, out, line>>
    /\ Static

-----------------------------------------------------------------------------
(* The programs the machine is run on, as the syntax trees of their text *)

Var(x) == Identifier(x)
Plus(l, r) == BinaryOperation("+", l, r)
Minus(l, r) == BinaryOperation("-", l, r)
Less(l, r) == BinaryOperation("<", l, r)
Do(e) == ExpressionStatement(e)
PrintCall(arguments) == Do(FunctionCall("print", arguments))

\* function id(x) return x; end  id(v);
IdProgram(v) ==
    << FunctionDeclaration("id", <<"x">>, << Return(Var("x")) >>),
       Do(FunctionCall("id", <<Num(v)>>)) >>

\* function sum(x) if x < 1 then return 0; end return x + sum(x - 1); end
SumDeclaration ==
    FunctionDeclaration("sum", <<"x">>,
        << If(Less(Var("x"), Num(1)), << Return(Num(0)) >>),
           Return(Plus(Var("x"),
                       FunctionCall("sum", <<Minus(Var("x"), Num(1))>>))) >>)

\* the same with the recursive call in a local, as the parser shapes it
SumLocalDeclaration ==
    FunctionDeclaration("sum", <<"x">>,
        << If(Less(Var("x"), Num(1)), << Return(Num(0)) >>),
           Local("rest", FunctionCall("sum", <<Minus(Var("x"), Num(1))>>)),
           Return(Plus(Var("x"), Var("rest"))) >>)

\* sum(n); on an empty stack
SumProgram(n) == << SumDeclaration, Do(FunctionCall("sum", <<Num(n)>>)) >>
\* 7; 8; sum(n); print(...): the call is made above two operand words
SumAboveProgram(n) ==
    << SumLocalDeclaration, Do(Num(7)), Do(Num(8)),
       Do(FunctionCall("sum", <<Num(n)>>)) >>

\* print(1, ..., k);
PrintProgram(k) == << PrintCall([i \in 1..k |-> Num(i)]) >>

\* l op r; for the three operators
ArithmeticProgram(l, r) ==
    << Do(Plus(Num(l), Num(r))), Do(Minus(Num(l), Num(r))),
       Do(Less(Num(l), Num(r))),
       PrintCall(<<Minus(Num(l), Num(r)), Less(Num(l), Num(r))>>) >>

\* function t(c) if c < 1 then return 1; end return 2; end print(t(0), t(1));
IfProgram ==
    << FunctionDeclaration("t", <<"c">>,
          << If(Less(Var("c"), Num(1)), << Return(Num(1)) >>),
             Return(Num(2)) >>),
       PrintCall(<< FunctionCall("t", <<Num(0)>>), FunctionCall("t", <<Num(1)>>) >>) >>

\* if 0 < 0 then return 1; end return 2;     (spec 8: a Return at top level)
TopLevelIfProgram ==
    << If(Less(Num(0), Num(0)), << Return(Num(1)) >>), Return(Num(2)) >>

\* local a = 5; local b = a + 2; if b then local c = b - a; print(c, b, a); end
\* if a < a then print(a); end   if 0 then end
LocalsProgram ==
    << Local("a", Num(5)), Local("b", Plus(Var("a"), Num(2))),
       If(Var("b"), << Local("c", Minus(Var("b"), Var("a"))),
                       PrintCall(<<Var("c"), Var("b"), Var("a")>>) >>),
       If(Less(Var("a"), Var("a")), << PrintCall(<<Var("a")>>) >>),
       If(Num(0), << >>) >>

\* 6; if 0 then local a = 1; end  local b = 2; print(b); local c = b + 1;
\* the slot of a is never written: the store of b grows the stack past it
IfLocalProgram ==
    << If(Num(0), << Local("a", Num(1)) >>),
       Local("b", Num(2)),
       PrintCall(<<Var("b")>>),
       Do(Num(6)),
       Local("c", Plus(Var("b"), Num(1))) >>

\* function inc(x) return x + 1; end
\* function f(x, y, z) local w = inc(x); 9; return w - y; end
\* 4; print(f(10, 3, 1), f(1, 2, 3));
NestedProgram ==
    << FunctionDeclaration("inc", <<"x">>, << Return(Plus(Var("x"), Num(1))) >>),
       FunctionDeclaration("f", <<"x", "y", "z">>,
          << Local("w", FunctionCall("inc", <<Var("x")>>)),
             Do(Num(9)),
             Return(Minus(Var("w"), Var("y"))) >>),
       Do(Num(4)),
       PrintCall(<< FunctionCall("f", <<Num(10), Num(3), Num(1)>>),
                FunctionCall("f", <<Num(1), Num(2), Num(3)>>) >>) >>

\* function outer(x) function inner(y) return y + y; end return inner(x); end
\* print(outer(3));
InnerDeclarationProgram ==
    << FunctionDeclaration("outer", <<"x">>,
          << FunctionDeclaration("inner", <<"y">>,
                << Return(Plus(Var("y"), Var("y"))) >>),
             Return(FunctionCall("inner", <<Var("x")>>)) >>),
       PrintCall(<< FunctionCall("outer", <<Num(3)>>) >>) >>

\* local a = 7; function print(x) return 99; end  print(1, 2);
\* local r = print(3);
UserPrintProgram ==
    << Local("a", Num(7)),
       FunctionDeclaration("print", <<"x">>, << Return(Num(99)) >>),
       PrintCall(<<Num(1), Num(2)>>),
       Local("r", FunctionCall("print", <<Num(3)>>)) >>

\* function two(a, b) return a + b; end   1; 2; 3;  two(5, 6, 7);  two(8);
\* a call with more arguments than parameters, then one with fewer
ArityProgram ==
    << FunctionDeclaration("two", <<"a", "b">>,
          << Return(Plus(Var("a"), Var("b"))) >>),
       Do(Num(1)), Do(Num(2)), Do(Num(3)),
       Do(FunctionCall("two", <<Num(5), Num(6), Num(7)>>)),
       Do(FunctionCall("two", <<Num(8)>>)) >>

\* function h(a1, ..., an) return r; end  function f(x) h(); return 0; end
\* 7; f(5); print(1);
\* f passes h no argument: h's Return pops n words of f's frame
Parameters(n) == [i \in 1..n |-> "a" \o ToString(i)]
ShortCallProgram(n, r) ==
    << FunctionDeclaration("h", Parameters(n), << Return(Num(r)) >>),
       FunctionDeclaration("f", <<"x">>,
          << Do(FunctionCall("h", << >>)), Return(Num(0)) >>),
       Do(Num(7)),
       Do(FunctionCall("f", <<Num(5)>>)),
       PrintCall(<<Num(1)>>) >>

\* function h(a, b, c, d) return 0; end  function f(x) h(); return 0; end
\* 0 - 7; f(5);
\* h's Return pops f's argument and saved words: f's Return takes 5 as the
\* return address and -7 as the frame pointer
NegativeFrameProgram ==
    << FunctionDeclaration("h", Parameters(4), << Return(Num(0)) >>),
       FunctionDeclaration("f", <<"x">>,
          << Do(FunctionCall("h", << >>)), Return(Num(0)) >>),
       Do(Minus(Num(0), Num(7))),
       Do(FunctionCall("f", <<Num(5)>>)) >>

\* the same with  7; f(0 - 5);  f's Return takes -5 as the return address
NegativeReturnProgram ==
    << FunctionDeclaration("h", Parameters(4), << Return(Num(0)) >>),
       FunctionDeclaration("f", <<"x">>,
          << Do(FunctionCall("h", << >>)), Return(Num(0)) >>),
       Do(Num(7)),
       Do(FunctionCall("f", <<Minus(Num(0), Num(5))>>)) >>

\* function id(x) return x; end  function h(a, b) return 0; end
\* function f(x) h(); id(6); return 0; end
\* 7; f(5); print(1);
\* a call that passes what its callee declares, made on the damaged frame
ShortThenCallProgram ==
    << FunctionDeclaration("id", <<"x">>, << Return(Var("x")) >>),
       FunctionDeclaration("h", <<"a", "b">>, << Return(Num(0)) >>),
       FunctionDeclaration("f", <<"x">>,
          << Do(FunctionCall("h", << >>)),
             Do(FunctionCall("id", <<Num(6)>>)),
             Return(Num(0)) >>),
       Do(Num(7)),
       Do(FunctionCall("f", <<Num(5)>>)),
       PrintCall(<<Num(1)>>) >>

\* function h(a, b) return 5; end  function f(x) h(); return 0; end
\* f(1); print(1);
\* f's Return pops the 5 that h returned as its argument count
EmptyPopProgram ==
    << FunctionDeclaration("h", <<"a", "b">>, << Return(Num(5)) >>),
       FunctionDeclaration("f", <<"x">>,
          << Do(FunctionCall("h", << >>)), Return(Num(0)) >>),
       Do(FunctionCall("f", <<Num(1)>>)),
       PrintCall(<<Num(1)>>) >>

\* function f() print(1) + 2; return 0; end  7; 8; f();
\* print pushes no value: the Add takes the saved argument count as its left
\* operand
PrintOperandProgram ==
    << FunctionDeclaration("f", << >>,
          << Do(Plus(FunctionCall("print", <<Num(1)>>), Num(2))),
             Return(Num(0)) >>),
       Do(Num(7)), Do(Num(8)),
       Do(FunctionCall("f", << >>)) >>

\* function f() return print(1); end  print(1, 2, 3); print(4, 5, 6); 7; 8; f();
\* the Return takes the saved argument count as the return value
PrintReturnProgram ==
    << FunctionDeclaration("f", << >>,
          << Return(FunctionCall("print", <<Num(1)>>)) >>),
       PrintCall(<<Num(1), Num(2), Num(3)>>),
       PrintCall(<<Num(4), Num(5), Num(6)>>),
       Do(Num(7)), Do(Num(8)),
       Do(FunctionCall("f", << >>)) >>

\* function g(y) return 2; end  function f() g(print(1)); return 0; end
\* 7; 8; f();
\* g is passed one argument that pushes no value: its Return pops the saved
\* argument count of f
PrintArgumentProgram ==
    << FunctionDeclaration("g", <<"y">>, << Return(Num(2)) >>),
       FunctionDeclaration("f", << >>,
          << Do(FunctionCall("g", << FunctionCall("print", <<Num(1)>>) >>)),
             Return(Num(0)) >>),
       Do(Num(7)), Do(Num(8)),
       Do(FunctionCall("f", << >>)) >>

\* function g() return print(1); end  function f(x) g(); return x; end
\* print(1, 2, 3); print(4, 5, 6); 7; 8; f(3);
PrintReturnNestedProgram ==
    << FunctionDeclaration("g", << >>,
          << Return(FunctionCall("print", <<Num(1)>>)) >>),
       FunctionDeclaration("f", <<"x">>,
          << Do(FunctionCall("g", << >>)), Return(Var("x")) >>),
       PrintCall(<<Num(1), Num(2), Num(3)>>),
       PrintCall(<<Num(4), Num(5), Num(6)>>),
       Do(Num(7)), Do(Num(8)),
       Do(FunctionCall("f", <<Num(3)>>)) >>

\* function g(x) return x; end
\* function f(x) g(x, x, x); return x; end   print(f(3));
\* f passes g more arguments than it declares
LongCallProgram ==
    << FunctionDeclaration("g", <<"x">>, << Return(Var("x")) >>),
       FunctionDeclaration("f", <<"x">>,
          << Do(FunctionCall("g", <<Var("x"), Var("x"), Var("x")>>)),
             Return(Var("x")) >>),
       PrintCall(<< FunctionCall("f", <<Num(3)>>) >>) >>

\* g(1); print(4); function g(x) local a = x; end
\* local b = 2; print(b); return 3; print(5);
\* the body of g ends without a Return
NoReturnProgram ==
    << Do(FunctionCall("g", <<Num(1)>>)),
       PrintCall(<<Num(4)>>),
       FunctionDeclaration("g", <<"x">>, << Local("a", Var("x")) >>),
       Local("b", Num(2)),
       PrintCall(<<Var("b")>>),
       Return(Num(3)),
       PrintCall(<<Num(5)>>) >>

\* function loop(x) return loop(x + 1); end  loop(0);
EndlessProgram ==
    << FunctionDeclaration("loop", <<"x">>,
          << Return(FunctionCall("loop", <<Plus(Var("x"), Num(1))>>)) >>),
       Do(FunctionCall("loop", <<Num(0)>>)) >>

\* function inc(x) return x + 1; end
\* function g(x) x; x < inc(x); inc(x); 9; print(x); return 0; end
\* local a = 3; a; inc(a) - inc(1); g(a); print(a, inc(2));
ExpressionStatementsProgram ==
    << FunctionDeclaration("inc", <<"x">>, << Return(Plus(Var("x"), Num(1))) >>),
       FunctionDeclaration("g", <<"x">>,
          << Do(Var("x")),
             Do(Less(Var("x"), FunctionCall("inc", <<Var("x")>>))),
             Do(FunctionCall("inc", <<Var("x")>>)),
             Do(Num(9)),
             PrintCall(<<Var("x")>>),
             Return(Num(0)) >>),
       Local("a", Num(3)),
       Do(Var("a")),
       Do(Minus(FunctionCall("inc", <<Var("a")>>), FunctionCall("inc", <<Num(1)>>))),
       Do(FunctionCall("g", <<Var("a")>>)),
       PrintCall(<<Var("a"), FunctionCall("inc", <<Num(2)>>)>>) >>

\* 7; print(1) + 2;     the Add takes the 7 as its left operand
PrintOperandTopProgram ==
    << Do(Num(7)), Do(Plus(FunctionCall("print", <<Num(1)>>), Num(2))) >>

\* function if_else_3(x) if x then return 1; end return 0; end  if_else_3(0);
\* the function takes the name of the label of the if in its own body
LabelLoopProgram ==
    << FunctionDeclaration("if_else_3", <<"x">>,
          << If(Var("x"), << Return(Num(1)) >>), Return(Num(0)) >>),
       Do(FunctionCall("if_else_3", <<Num(0)>>)) >>

\* function h(a1, a2, a3, a4) return 1; end  function f(x) h(); return 0; end
\* 9; 0; f(13);
\* h's Return pops four words of f's frame; f's Return then takes h's 1 as
\* the argument count, f's argument 13 as the return address, the index of
\* the statement  0;  and the 0 below it as the frame pointer
RestartLoopProgram ==
    << FunctionDeclaration("h", Parameters(4), << Return(Num(1)) >>),
       FunctionDeclaration("f", <<"x">>,
          << Do(FunctionCall("h", << >>)), Return(Num(0)) >>),
       Do(Num(9)), Do(Num(0)),
       Do(FunctionCall("f", <<Num(13)>>)) >>

\* function f(x, x) return x; end  f(1, 2);
DuplicateParameterProgram ==
    << FunctionDeclaration("f", <<"x", "x">>, << Return(Var("x")) >>),
       Do(FunctionCall("f", <<Num(1), Num(2)>>)) >>

\* function f(x, x) local y = 5; return x; end  print(f(1, 2));
DuplicateParameterLocalProgram ==
    << FunctionDeclaration("f", <<"x", "x">>,
          << Local("y", Num(5)), Return(Var("x")) >>),
       PrintCall(<< FunctionCall("f", <<Num(1), Num(2)>>) >>) >>

\* function f(x) local x = 5; return x; end  print(f(1));
\* the local takes the name of the parameter
RedeclaredParameterProgram ==
    << FunctionDeclaration("f", <<"x">>,
          << Local("x", Num(5)), Return(Var("x")) >>),
       PrintCall(<< FunctionCall("f", <<Num(1)>>) >>) >>

\* local x = 1; local y = 2; local x = 3; print(x, y);
DuplicateLocalProgram ==
    << Local("x", Num(1)), Local("y", Num(2)), Local("x", Num(3)),
       PrintCall(<<Var("x"), Var("y")>>) >>

\* print(1); missing(2); print(3);
UndefinedFunctionProgram ==
    << PrintCall(<<Num(1)>>), Do(FunctionCall("missing", <<Num(2)>>)),
       PrintCall(<<Num(3)>>) >>

\* print(1); print(y);
UndefinedIdentifierProgram == << PrintCall(<<Num(1)>>), PrintCall(<<Var("y")>>) >>

\* print(1); function f(x) return y; end  print(2);     f is never called
UndefinedInFunctionProgram ==
    << PrintCall(<<Num(1)>>),
       FunctionDeclaration("f", <<"x">>, << Return(Var("y")) >>),
       PrintCall(<<Num(2)>>) >>

\* print(1); if 1 then print(z); end  print(2);     the body is never taken
UndefinedInIfProgram ==
    << PrintCall(<<Num(1)>>),
       If(Num(1), << PrintCall(<<Var("z")>>) >>),
       PrintCall(<<Num(2)>>) >>

\* print(1); local a = 1 + f(2, b);
UndefinedArgumentProgram ==
    << PrintCall(<<Num(1)>>),
       Local("a", Plus(Num(1), FunctionCall("f", <<Num(2), Var("b")>>))) >>

\* local a = 1; function f(x) return a + x; end  print(f(2));
\* the body refers to a local of the top level
OuterLocalProgram ==
    << Local("a", Num(1)),
       FunctionDeclaration("f", <<"x">>, << Return(Plus(Var("a"), Var("x"))) >>),
       PrintCall(<< FunctionCall("f", <<Num(2)>>) >>) >>

\* function f(x) local b = x; return b; end  print(f(1)); print(b);
\* the top level refers to a local of the body
InnerLocalProgram ==
    << FunctionDeclaration("f", <<"x">>,
          << Local("b", Var("x")), Return(Var("b")) >>),
       PrintCall(<< FunctionCall("f", <<Num(1)>>) >>),
       PrintCall(<< Var("b") >>) >>

\* function f(x) return 0; end  print(x);
\* the top level refers to a parameter
InnerParameterProgram ==
    << FunctionDeclaration("f", <<"x">>, << Return(Num(0)) >>),
       PrintCall(<< Var("x") >>) >>

\* local a = 1; local d = 4;
\* function f(d, a) local b = 2; return a; end
\* local c = 3; print(a, d, c, f(8, 9));
\* the parameters and the local of f take names and slots of their own
ScopeProgram ==
    << Local("a", Num(1)), Local("d", Num(4)),
       FunctionDeclaration("f", <<"d", "a">>,
          << Local("b", Num(2)), Return(Var("a")) >>),
       Local("c", Num(3)),
       PrintCall(<< Var("a"), Var("d"), Var("c"),
                    FunctionCall("f", <<Num(8), Num(9)>>) >>) >>

\* print(2 * 3);
UnknownOperatorProgram ==
    << PrintCall(<< BinaryOperation("*", Num(2), Num(3)) >>) >>

\* print(2147483648);
LiteralTooLargeProgram ==
    << PrintCall(<< Number(<<2, 1, 4, 7, 4, 8, 3, 6, 4, 8>>) >>) >>

\* print(2147483647 + 1);  print(0 - 2147483647 - 2) in two steps
OverflowProgram(adding) ==
    IF adding
    THEN << PrintCall(<< Plus(Num(MaxI32), Num(1)) >>), PrintCall(<<Num(1)>>) >>
    ELSE << Local("m", Minus(Num(0), Num(MaxI32))),
            PrintCall(<< Minus(Var("m"), Num(2)) >>), PrintCall(<<Num(1)>>) >>

\* if 0 then print(1); end  function if_else_1() print(2); return 3; end  print(4);
\* the function takes the name of the if's label
IfLabelProgram ==
    << If(Num(0), << PrintCall(<<Num(1)>>) >>),
       FunctionDeclaration("if_else_1", << >>,
          << PrintCall(<<Num(2)>>), Return(Num(3)) >>),
       PrintCall(<<Num(4)>>) >>

\* function function_done_0(x) return x; end  print(function_done_0(5));
\* the function takes the name of its own guard's label
OwnGuardLabelProgram ==
    << FunctionDeclaration("function_done_0", <<"x">>, << Return(Var("x")) >>),
       PrintCall(<< FunctionCall("function_done_0", <<Num(5)>>) >>) >>

\* function f() return 1; end  function function_done_0() print(2); return 3; end
\* print(4);      the second function takes the name of the first guard's label
GuardLabelProgram ==
    << FunctionDeclaration("f", << >>, << Return(Num(1)) >>),
       FunctionDeclaration("function_done_0", << >>,
          << PrintCall(<<Num(2)>>), Return(Num(3)) >>),
       PrintCall(<<Num(4)>>) >>

\* if 0 then end
\* function if_else_1()
\*   function function_done_4() function g() return 0; end return 0; end
\*   return 0;
\* end
\* no function is called: the branch of the if resolves the symbol of the
\* outer function and lands on the guard Jump of g, which resolves the
\* symbol of the function around it, at its own index
SelfJumpProgram ==
    << If(Num(0), << >>),
       FunctionDeclaration("if_else_1", << >>,
          << FunctionDeclaration("function_done_4", << >>,
                << FunctionDeclaration("g", << >>, << Return(Num(0)) >>),
                   Return(Num(0)) >>),
             Return(Num(0)) >>) >>

\* print(1, 2 + 3);  with the stack too short for an Add: a lone operator
\* cannot be written in the language, so underflow is reached through calls
\* function h(a, b) return 0; end  1; 2; 3;  print(h(), h());
PrintUnderflowProgram ==
    << FunctionDeclaration("h", <<"a", "b">>, << Return(Num(0)) >>),
       Do(Num(1)), Do(Num(2)), Do(Num(3)),
       PrintCall(<< FunctionCall("h", << >>), FunctionCall("h", << >>) >>) >>

Corpus ==
    [i \in 1..(MaxDepth + 1) |-> SumProgram(i - 1)]
    \o [i \in 1..(MaxDepth + 1) |-> SumAboveProgram(i - 1)]
    \o [i \in 1..(MaxPrintArgs + 1) |-> PrintProgram(i - 1)]
    \o << IdProgram(42), IdProgram(0),
          ArithmeticProgram(3, 4), ArithmeticProgram(10, 3),
          ArithmeticProgram(2, 5), ArithmeticProgram(5, 2),
          ArithmeticProgram(5, 5),
          IfProgram, TopLevelIfProgram, LocalsProgram, IfLocalProgram,
          NestedProgram,
          InnerDeclarationProgram, UserPrintProgram, ArityProgram,
          ShortCallProgram(1, 0), ShortCallProgram(2, 0), ShortCallProgram(3, 0),
          ShortCallProgram(4, 0), ShortCallProgram(2, 5), ShortCallProgram(3, 2),
          ShortCallProgram(4, 1), ShortThenCallProgram, EmptyPopProgram,
          NegativeFrameProgram, NegativeReturnProgram,
          PrintOperandProgram, PrintReturnProgram,
          PrintArgumentProgram, PrintReturnNestedProgram,
          LongCallProgram, NoReturnProgram, EndlessProgram,
          ExpressionStatementsProgram, PrintOperandTopProgram,
          LabelLoopProgram, RestartLoopProgram,
          DuplicateParameterProgram, DuplicateParameterLocalProgram,
          DuplicateLocalProgram, RedeclaredParameterProgram,
          UndefinedFunctionProgram, UndefinedIdentifierProgram,
          UndefinedInFunctionProgram, UndefinedInIfProgram,
          UndefinedArgumentProgram,
          OuterLocalProgram, InnerLocalProgram, InnerParameterProgram,
          ScopeProgram,
          UnknownOperatorProgram, LiteralTooLargeProgram,
          OverflowProgram(TRUE), OverflowProgram(FALSE),
          IfLabelProgram, OwnGuardLabelProgram, GuardLabelProgram,
          SelfJumpProgram,
          PrintUnderflowProgram >>

-----------------------------------------------------------------------------
(* The specification *)

Init ==
    /\ \E i \in 1..Len(Corpus) : ast = Corpus[i]
    /\ overflow_checks \in BOOLEAN
    /\ status = "compiling"
    /\ pgrm = [instructions |-> <<>>, syms |-> EmptyMap]
    /\ marks = <<>>
    /\ pc = 0
    /\ sp = 0
    /\ data = <<>>
    /\ out = <<>>
    /\ line = <<>>
    /\ calls = <<>>
    /\ last = [op |-> "none", pc |-> 0, sp |-> 0, data |-> <<>>, calls |-> <<>>,
               out |-> <<>>, empty_pops |-> 0, open |-> <<>>]

Next ==
    \/ Compile
    \/ Exit
    \/ FetchOutOfRange
    \/ Exec_DupPlusSP
    \/ Exec_MoveMinusSP
    \/ Exec_MovePlusSP
    \/ Exec_JumpIfNotZero
    \/ Exec_Jump
    \/ Exec_Return
    \/ Exec_Call_print
    \/ Exec_Call
    \/ Exec_Add
    \/ Exec_Subtract
    \/ Exec_LessThan
    \/ Exec_Store

Spec == Init /\ [][Next]_vars

\* the loop of eval (eval.rs 232) never pauses: the instruction at pc is
\* executed, and the loop is left when pc is past the end
FairSpec ==
    /\ Spec
    /\ WF_vars(Exit) /\ WF_vars(FetchOutOfRange)
    /\ WF_vars(Exec_DupPlusSP) /\ WF_vars(Exec_MoveMinusSP)
    /\ WF_vars(Exec_MovePlusSP) /\ WF_vars(Exec_JumpIfNotZero)
    /\ WF_vars(Exec_Jump) /\ WF_vars(Exec_Return)
    /\ WF_vars(Exec_Call_print) /\ WF_vars(Exec_Call)
    /\ WF_vars(Exec_Add) /\ WF_vars(Exec_Subtract) /\ WF_vars(Exec_LessThan)
    /\ WF_vars(Exec_Store)

-----------------------------------------------------------------------------
(* Calls and returns *)

\* a Return has just been executed and it ended a call of the history
Returned == last.op = "Return" /\ status = "running" /\ last.calls # <<>>
\* the call that Return ended, and the value it returned
EndedCall == last.calls[Len(last.calls)]
ReturnValue == last.data[Len(last.data)]

\* C1 (as stated): after the Return of a call made with exactly as many
\* arguments as the callee declares, the stack is the stack before the
\* arguments were pushed with the return value appended
C1_CallRoundTrip ==
    (Returned /\ EndedCall.k = EndedCall.a)
        => data = Append(EndedCall.base, ReturnValue)

\* C1 (amended): the same, for a call that stayed intact: no instruction
\* executed between the Call and its Return popped a word below the frame
\* pointer, as the Return of a nested call that was passed fewer values than
\* it declares parameters can
C1_CallRoundTripIntact ==
    (Returned /\ EndedCall.k = EndedCall.a /\ EndedCall.intact)
        => /\ data = Append(EndedCall.base, ReturnValue)
           /\ Len(data) = Len(EndedCall.base) + 1

\* a nested call of three arguments returns above a non-empty stack, with a
\* local and a leftover operand above its frame base
C1_Witness ==
    /\ Returned
    /\ EndedCall.k = EndedCall.a /\ EndedCall.a = 3 /\ EndedCall.intact
    /\ EndedCall.base # <<>>
    /\ EndedCall.nlocals > EndedCall.a
    /\ Len(last.data) > (EndedCall.frame + EndedCall.nlocals) + 1
    /\ data = Append(EndedCall.base, ReturnValue)

\* C2 (as stated): a Return that ends the call made at index c while the
\* frame pointer was f leaves pc = c + 1 and fp = f
C2_ReturnRestoresRegisters ==
    Returned => (pc = EndedCall.site + 1 /\ sp = EndedCall.fp)

\* C2 (amended): the same, for a call that stayed intact
C2_ReturnRestoresRegistersIntact ==
    (Returned /\ EndedCall.intact)
        => (pc = EndedCall.site + 1 /\ sp = EndedCall.fp)

\* the inner of two nested calls returns: the registers are those of the
\* outer call's frame, not of the top level
C2_Witness ==
    /\ Returned /\ EndedCall.intact
    /\ Len(last.calls) >= 2
    /\ EndedCall.fp > 0
    /\ pc = EndedCall.site + 1 /\ sp = EndedCall.fp
    /\ pc # sp

-----------------------------------------------------------------------------
(* Recursion *)

\* 0 + 1 + ... + n, the value sum(n) accumulates
Triangle(n) == (n * (n + 1)) \div 2

\* the outermost call of the program has just returned value above base, and
\* the frame pointer is the caller's again
OutermostReturned(base, value) ==
    /\ Returned /\ Len(last.calls) = 1
    /\ data = Append(base, value)
    /\ sp = EndedCall.fp /\ sp = 0

\* eval is entered with the compiled program
Entered == status = "running" /\ last.op = "compile"

\* C3: for every start argument n up to MaxDepth, sum(n) terminates: its
\* outermost Return leaves the stack of before the call plus the accumulated
\* value 0 + 1 + ... + n with the caller's frame pointer, and the run then
\* finishes with that stack; on an empty stack and above two operand words
C3_RecursionTerminates ==
    \A n \in 0..MaxDepth :
        /\ (ast = SumProgram(n) /\ Entered)
              ~> OutermostReturned(<<>>, Triangle(n))
        /\ (ast = SumProgram(n) /\ Entered)
              ~> (status = "finished" /\ data = <<Triangle(n)>> /\ sp = 0)
        /\ (ast = SumAboveProgram(n) /\ Entered)
              ~> OutermostReturned(<<7, 8>>, Triangle(n))
        /\ (ast = SumAboveProgram(n) /\ Entered)
              ~> (status = "finished" /\ data = <<7, 8, Triangle(n)>> /\ sp = 0)

\* the deepest recursion has unwound: MaxDepth + 1 frames were stacked and the
\* outermost Return has left the accumulated value above the two operands
C3_Witness ==
    /\ ast = SumAboveProgram(MaxDepth)
    /\ MaxDepth >= 3
    /\ OutermostReturned(<<7, 8>>, Triangle(MaxDepth))
    /\ Len(last.data) = 2 + 1 + 3 + 2 + 1

-----------------------------------------------------------------------------
(* Argument binding *)

\* the call in progress
CurrentCall == calls[Len(calls)]

\* the entry sequence of the function just called has been executed: the last
\* of its MoveMinusSP instructions (none for a function without parameters),
\* in the frame of that call, with nothing else executed since the Call
EntryDone ==
    /\ status = "running" /\ calls # <<>>
    /\ CurrentCall.intact /\ sp = CurrentCall.frame
    /\ \/ /\ CurrentCall.a > 0 /\ last.op = "MoveMinusSP"
          /\ last.pc = (CurrentCall.loc + CurrentCall.a) - 1
       \/ CurrentCall.a = 0 /\ last.op = "Call"

\* C4: after the entry sequence of a function of arity a called with a
\* arguments, slot fp + i holds the i-th argument in source order for every
\* i < a, and the words below fp are still the stack of before, the
\* arguments, and the three saved words
C4_ArgumentBinding ==
    (EntryDone /\ CurrentCall.k = CurrentCall.a)
        => /\ \A i \in 0..(CurrentCall.a - 1) :
                 data[sp + i + 1] = CurrentCall.args[i + 1]
           /\ Take(data, sp) =
                 (CurrentCall.base \o CurrentCall.args)
                    \o <<CurrentCall.fp, CurrentCall.site + 1, CurrentCall.a>>

\* f(10, 3, 1) has bound its three parameters, with a fourth slot for its local
C4_Witness ==
    /\ EntryDone
    /\ CurrentCall.k = 3 /\ CurrentCall.a = 3
    /\ CurrentCall.args = <<10, 3, 1>>
    /\ CurrentCall.nlocals = 4
    /\ SubSeq(data, sp + 1, sp + 4) = <<10, 3, 1, 0>>
    /\ CurrentCall.base # <<>>

-----------------------------------------------------------------------------
(* Control flow *)

\* the if statements and the function declarations of the compiled program
Ifs == {m \in {marks[i] : i \in 1..Len(marks)} : m.kind = "if"}
Functions == {m \in {marks[i] : i \in 1..Len(marks)} : m.kind = "function"}

\* the instruction at index i lies in the body of function f
InBody(i, f) == f.entry <= i /\ i < f.after

\* C5: the JumpIfNotZero of an if statement pops exactly one value; when the
\* value is 0 the next instruction is the first one after the if body, and
\* otherwise the first one of the body
C5_IfSemantics ==
    \A m \in Ifs :
        (status = "running" /\ last.op = "JumpIfNotZero" /\ last.pc = m.guard)
            => /\ data = Pop(last.data)
               /\ Top(last.data) = 0 => pc = m.after
               /\ Top(last.data) # 0 => pc = m.entry

\* C6: the symbol of a function points at the instruction after its guard
\* Jump; the guard Jump leads to the first instruction after the body; and no
\* instruction of a body is reached from outside the body except by a Call
\* or by the Return of a call made from the body
C6_GuardJump ==
    \A f \in Functions :
        /\ status = "running" => pgrm.syms[f.name].location = f.guard + 1
        /\ (status = "running" /\ last.op = "Jump" /\ last.pc = f.guard)
              => pc = f.after
        /\ (status = "running" /\ InBody(pc, f) /\ ~InBody(last.pc, f))
              => last.op \in {"Call", "Return"}

-----------------------------------------------------------------------------
(* The builtin print *)

\* a Call of print has just been executed; its argument count
Printed == status = "running" /\ last.op = "print"
PrintedCount == Instructions[last.pc + 1].narguments

\* C7: Call("print", k) removes exactly the top k values and pushes nothing,
\* leaves fp unchanged, starts no call, and sets pc to pc + 1; and no
\* instruction of a user function named print is ever reached
C7_PrintStateEffect ==
    /\ Printed
          => /\ Len(last.data) >= PrintedCount
             /\ data = SubSeq(last.data, 1, Len(last.data) - PrintedCount)
             /\ sp = last.sp
             /\ pc = last.pc + 1
             /\ Len(calls) = Len(last.calls)
    /\ \A f \in Functions :
          (status = "running" /\ f.name = "print") => ~InBody(pc, f)

\* print(1, 2) has run above a local while a user function print is declared
C7_Witness ==
    /\ Printed
    /\ PrintedCount = 2
    /\ \E f \in Functions : f.name = "print" /\ pgrm.syms["print"].location = f.entry
    /\ last.data = <<7, 1, 2>> /\ data = <<7>>
    /\ pc = last.pc + 1 /\ sp = last.sp

\* the line print(1, ..., k) writes: k first, 1 last
CountDown(k) == [i \in 1..k |-> (k + 1) - i]

\* C8: a Call of print adds exactly one line to the output, holding the k
\* values it pops in the order it pops them: the value of the last argument
\* first and the value of the first argument last; print(1, ..., k) writes
\* the line k ... 1, whichever way the program was built
C8_PrintOutputOrder ==
    /\ Printed
          => /\ Len(out) = Len(last.out) + 1
             /\ SubSeq(out, 1, Len(last.out)) = last.out
             /\ out[Len(out)] =
                   [i \in 1..PrintedCount |-> last.data[(Len(last.data) + 1) - i]]
    /\ \A k \in 0..MaxPrintArgs :
          (ast = PrintProgram(k) /\ status = "finished") => out = <<CountDown(k)>>

\* print(1, 2, 3) has written the line 3 2 1
C8_Witness ==
    /\ ast = PrintProgram(3)
    /\ Printed
    /\ last.data = <<1, 2, 3>>
    /\ out = << <<3, 2, 1>> >>

-----------------------------------------------------------------------------
(* Arithmetic *)

\* an arithmetic instruction has just been executed on left and right
Computed == status = "running" /\ last.op \in {"Add", "Subtract", "LessThan"}
LeftOperand == last.data[Len(last.data) - 1]
RightOperand == last.data[Len(last.data)]

\* the exact sum and difference of the operands are i32 values
SumFits ==
    /\ RightOperand > 0 => LeftOperand <= MaxI32 - RightOperand
    /\ RightOperand < 0 => LeftOperand >= MinI32 - RightOperand
DifferenceFits ==
    /\ RightOperand < 0 => LeftOperand <= MaxI32 + RightOperand
    /\ RightOperand > 0 => LeftOperand >= MinI32 + RightOperand

\* the stack below the two operands is kept and one value replaces them
OneResult ==
    /\ Len(data) = Len(last.data) - 1
    /\ SubSeq(data, 1, Len(data) - 1) = SubSeq(last.data, 1, Len(last.data) - 2)

\* the programs l + r; l - r; l < r; of the corpus leave the three values
ArithmeticPairs == {<<3, 4>>, <<10, 3>>, <<2, 5>>, <<5, 2>>, <<5, 5>>}
ArithmeticTable ==
    \A p \in ArithmeticPairs :
        (ast = ArithmeticProgram(p[1], p[2]) /\ status = "finished")
            => data = <<p[1] + p[2], p[1] - p[2], IF p[1] < p[2] THEN 1 ELSE 0>>

\* C9 (as stated): Add, Subtract and LessThan replace the two top values,
\* left below right, by left + right, left - right, or 1 if left < right
\* else 0, and the stack is one shorter
C9_BinaryOperandOrder ==
    Computed
        => /\ OneResult
           /\ last.op = "Add"
                 => (SumFits /\ Top(data) = LeftOperand + RightOperand)
           /\ last.op = "Subtract"
                 => (DifferenceFits /\ Top(data) = LeftOperand - RightOperand)
           /\ last.op = "LessThan"
                 => Top(data) = (IF LeftOperand < RightOperand THEN 1 ELSE 0)

\* C9 (amended): the same when the exact sum or difference is an i32 value;
\* when it is not, the instruction is completed only by a build without
\* overflow checks, and the value pushed is the exact one wrapped by 2^32
C9_BinaryOperandOrderI32 ==
    /\ Computed
          => /\ OneResult
             /\ (last.op = "Add" /\ SumFits)
                   => Top(data) = LeftOperand + RightOperand
             /\ (last.op = "Subtract" /\ DifferenceFits)
                   => Top(data) = LeftOperand - RightOperand
             /\ (last.op = "Add" /\ ~SumFits)
                   => /\ ~overflow_checks
                      /\ Top(data) =
                           IF RightOperand > 0
                           THEN (LeftOperand + MinI32) + (RightOperand + MinI32)
                           ELSE (LeftOperand - MinI32) + (RightOperand - MinI32)
             /\ (last.op = "Subtract" /\ ~DifferenceFits)
                   => /\ ~overflow_checks
                      /\ Top(data) =
                           IF RightOperand < 0
                           THEN (LeftOperand + MinI32) - (RightOperand - MinI32)
                           ELSE (LeftOperand - MinI32) - (RightOperand + MinI32)
             /\ last.op = "LessThan"
                   => Top(data) = (IF LeftOperand < RightOperand THEN 1 ELSE 0)
    /\ ArithmeticTable

\* 10 - 3 has been computed: 7, not -7
C9_Witness ==
    /\ Computed /\ last.op = "Subtract"
    /\ LeftOperand = 10 /\ RightOperand = 3
    /\ Top(data) = 7
    /\ Len(last.data) = 3 /\ Len(data) = 2

-----------------------------------------------------------------------------
(* Failures *)

\* an instruction has just been executed, or has failed; that instruction
Stepped ==
    last.op \in {"DupPlusSP", "MoveMinusSP", "MovePlusSP", "JumpIfNotZero",
                 "Jump", "Return", "Call", "print", "Add", "Subtract", "LessThan"}
LastInstr == Instructions[last.pc + 1]

\* it popped the empty stack: a pop of Return's argument loop, or a pop for
\* a value the stack did not hold
PoppedEmpty ==
    \/ last.empty_pops > 0
    \/ last.op \in {"MovePlusSP", "JumpIfNotZero", "Return"} /\ last.data = <<>>
    \/ last.op = "Return" /\ last.sp < 0 /\ last.data # <<>>
    \/ last.op = "Return" /\ last.sp >= 0 /\ Len(drop_frame(Pop(last.data), last.sp)) < 3
    \/ last.op \in {"Add", "Subtract", "LessThan"} /\ Len(last.data) < 2
    \/ last.op = "print" /\ Len(last.data) < LastInstr.narguments

\* it read or wrote a slot outside the stack in DupPlusSP or MoveMinusSP
SlotOutside ==
    \/ /\ last.op = "DupPlusSP"
       /\ (last.sp + LastInstr.i < 0 \/ last.sp + LastInstr.i >= Len(last.data))
    \/ /\ last.op = "MoveMinusSP"
       /\ \/ last.sp - (LastInstr.sp_offset + 4) < 0
          \/ last.sp - (LastInstr.sp_offset + 4) >= Len(last.data)
          \/ last.sp + LastInstr.local_offset >= Len(last.data)

\* it looked up a label that the symbol table does not hold
LabelMissing ==
    /\ \/ last.op \in {"Jump", "Call"}
       \/ last.op = "JumpIfNotZero" /\ last.data # <<>> /\ Top(last.data) = 0
    /\ LastInstr.label \notin DOMAIN pgrm.syms

\* C10: an instruction that pops the empty stack, accesses a slot outside
\* the stack, or looks up a missing label aborts the run: the run does not go
\* on to a later instruction or to further output
C10_FailuresAreFatal ==
    (Stepped /\ (PoppedEmpty \/ SlotOutside \/ LabelMissing))
        => status = "eval_panic"

-----------------------------------------------------------------------------
(* Names *)

\* the expression e refers to an identifier that is not in the set scope
RECURSIVE RefersOutside(_, _)
RefersOutside(e, scope) ==
    IF e.kind = "Identifier" THEN e.name \notin scope
    ELSE IF e.kind = "BinaryOperation"
         THEN RefersOutside(e.left, scope) \/ RefersOutside(e.right, scope)
    ELSE IF e.kind = "FunctionCall"
         THEN \E i \in 1..Len(e.arguments) : RefersOutside(e.arguments[i], scope)
    ELSE FALSE

\* the statements body[i..] read in a scope that holds the names of scope:
\* [scope |-> the names declared once they are read,
\*  undefined |-> one of them refers to a name that is not declared where it
\*                stands]
\* A local is in scope from its own initializer on, the body of an if shares
\* the scope of the if, and the body of a function starts from its parameters
RECURSIVE Scan(_, _, _)
Scan(body, i, scope) ==
    IF i > Len(body) THEN [scope |-> scope, undefined |-> FALSE]
    ELSE LET stmt == body[i]
             here ==
               IF stmt.kind = "Local"
               THEN [scope |-> scope \cup {stmt.name},
                     undefined |-> RefersOutside(stmt.expression,
                                                 scope \cup {stmt.name})]
               ELSE IF stmt.kind = "If"
               THEN LET inner == Scan(stmt.body, 1, scope)
                    IN  [scope |-> inner.scope,
                         undefined |-> RefersOutside(stmt.test, scope)
                                          \/ inner.undefined]
               ELSE IF stmt.kind = "FunctionDeclaration"
               THEN [scope |-> scope,
                     undefined |->
                        Scan(stmt.body, 1,
                             {stmt.parameters[j] : j \in 1..Len(stmt.parameters)}
                            ).undefined]
               ELSE [scope |-> scope,
                     undefined |-> RefersOutside(stmt.expression, scope)]
             rest == Scan(body, i + 1, here.scope)
         IN  [scope |-> rest.scope,
              undefined |-> here.undefined \/ rest.undefined]

HasUndefinedIdentifier(tree) == Scan(tree, 1, {}).undefined

\* the virtual machine has not executed an instruction and nothing was written
NothingExecuted ==
    /\ last.op \in {"none", "compile"}
    /\ out = <<>> /\ line = <<>>
    /\ pc = 0 /\ sp = 0 /\ data = <<>>

\* C11: a program with a reference to an identifier that is no parameter or
\* local where it stands, be it in a function that is never called or in an
\* if body that is never taken, does not compile: the virtual machine
\* executes no instruction and nothing is printed
C11_UndefinedIdentifier ==
    HasUndefinedIdentifier(ast)
        => /\ status \in {"compiling", "compile_panic"}
           /\ NothingExecuted

\* compilation has aborted on the reference in the function that is never
\* called, after a print statement was compiled
C11_Witness ==
    /\ ast = UndefinedInFunctionProgram
    /\ HasUndefinedIdentifier(ast)
    /\ status = "compile_panic"
    /\ Len(pgrm.instructions) > 2
    /\ out = <<>>

-----------------------------------------------------------------------------
(* Labels *)

\* the names of the functions declared by the statements body[i..], at any
\* depth
RECURSIVE DeclaredFunctions(_, _)
DeclaredFunctions(body, i) ==
    IF i > Len(body) THEN {}
    ELSE LET stmt == body[i]
             here == IF stmt.kind = "FunctionDeclaration"
                     THEN {stmt.name} \cup DeclaredFunctions(stmt.body, 1)
                     ELSE IF stmt.kind = "If"
                     THEN DeclaredFunctions(stmt.body, 1)
                     ELSE {}
         IN  here \cup DeclaredFunctions(body, i + 1)

\* the instructions of the compiled program that name a label
Jumps == {i \in 1..Len(Instructions) :
             Instructions[i].op \in {"Jump", "JumpIfNotZero"}}
Calls == {i \in 1..Len(Instructions) : Instructions[i].op = "Call"}

Resolved(i) == Instructions[i].label \in DOMAIN pgrm.syms

\* C12 (as stated): in the program handed to the virtual machine, every
\* label named by a Jump, a JumpIfNotZero or a Call has an entry in the
\* symbol table
C12_LabelsResolved ==
    status = "running" => \A i \in Jumps \cup Calls : Resolved(i)

\* C12 (amended): every label named by a Jump or a JumpIfNotZero has an
\* entry, and so has the label of every Call that names a function the
\* program declares
C12_LabelsResolvedDeclared ==
    status = "running"
        => /\ \A i \in Jumps : Resolved(i)
           /\ \A i \in Calls :
                 Instructions[i].label \in DeclaredFunctions(ast, 1)
                    => Resolved(i)

\* a program with a guard Jump, an if, calls of a declared function and a
\* call of print is running, and print has no entry
C12_Witness ==
    /\ status = "running"
    /\ \E i \in Jumps : Instructions[i].op = "Jump" /\ Resolved(i)
    /\ \E i \in Jumps : Instructions[i].op = "JumpIfNotZero" /\ Resolved(i)
    /\ \E i \in Calls : Instructions[i].label = "t" /\ Resolved(i)
    /\ \E i \in Calls : Instructions[i].label = "print" /\ ~Resolved(i)
    /\ pc > 0

-----------------------------------------------------------------------------
(* Slots *)

\* the inserts into the local-name tables, in the order compile made them,
\* as positions of marks; the tables they were made on
SlotMarks == {i \in 1..Len(marks) : marks[i].kind = "slot"}
Scopes == {marks[i].guard : i \in SlotMarks}

\* the names the table of scope holds after the first n marks, and the slot
\* it gives to name then: the one of the last insert of that name
NamesAt(scope, n) ==
    {marks[i].name : i \in {j \in SlotMarks : j <= n /\ marks[j].guard = scope}}
SlotAt(scope, name, n) ==
    LET inserts == {j \in SlotMarks : /\ j <= n /\ marks[j].guard = scope
                                      /\ marks[j].name = name}
    IN  marks[CHOOSE j \in inserts : \A k \in inserts : k <= j].entry

\* at every moment of compilation two distinct names of one table hold
\* distinct slots
SlotsUnique ==
    \A n \in SlotMarks :
        \A a, b \in NamesAt(marks[n].guard, n) :
            a # b => SlotAt(marks[n].guard, a, n) # SlotAt(marks[n].guard, b, n)

\* a name is given the same slot by every insert of it into one table
SlotsStable ==
    \A i, j \in SlotMarks :
        (marks[i].guard = marks[j].guard /\ marks[i].name = marks[j].name)
            => marks[i].entry = marks[j].entry

\* C13: the slot indices of the parameters and locals of one function body,
\* or of the top level, are unique and stable, whatever the sequence of
\* parameter and local declarations
C13_SlotAssignment == SlotsUnique /\ SlotsStable

-----------------------------------------------------------------------------
(* Expression statements *)

IsPrint(e) == e.kind = "FunctionCall" /\ e.name = "print"

\* an operand or an argument inside e is a call of print, which pushes no
\* value
RECURSIVE ConsumesPrint(_)
ConsumesPrint(e) ==
    IF e.kind = "BinaryOperation"
    THEN \/ IsPrint(e.left) \/ IsPrint(e.right)
         \/ ConsumesPrint(e.left) \/ ConsumesPrint(e.right)
    ELSE IF e.kind = "FunctionCall"
    THEN \E i \in 1..Len(e.arguments) :
            IsPrint(e.arguments[i]) \/ ConsumesPrint(e.arguments[i])
    ELSE FALSE

\* the code of an expression statement has just been executed, in the frame
\* it was started in; that statement
StatementDone ==
    /\ status = "running"
    /\ Settled # <<>>
    /\ Settled[Len(Settled)].mark.after = pc
    /\ Settled[Len(Settled)].level = Len(calls)
Statement == Settled[Len(Settled)]

\* C14 (as stated): after the code of an expression statement the stack is
\* one word deeper than before it
C14_ExpressionLeavesValue ==
    StatementDone => Len(data) = Statement.depth + 1

\* C14 (amended): the stack is one word deeper after a number, an
\* identifier, a binary operation or a call of a user function, and as deep
\* as before after a call of print, when no operand or argument inside the
\* expression is a call of print and every call the statement made was
\* passed as many arguments as its callee declares and stayed intact
C14_ExpressionLeavesValueClean ==
    (StatementDone /\ Statement.clean /\ ~ConsumesPrint(Statement.mark.expression))
        => Len(data) = Statement.depth
                          + (IF IsPrint(Statement.mark.expression) THEN 0 ELSE 1)

\* inside g the statement  x < inc(x);  has been executed: a binary
\* operation with an identifier and a call of a user function as operands
C14_Witness ==
    /\ StatementDone /\ Statement.clean
    /\ Statement.mark.expression.kind = "BinaryOperation"
    /\ Statement.mark.expression.right.kind = "FunctionCall"
    /\ Statement.level = 1
    /\ Statement.depth > 0
    /\ Len(data) = Statement.depth + 1
    /\ Top(data) = 1

-----------------------------------------------------------------------------
(* Termination *)

\* the run has ended: the loop of eval was left, or a panic ended the process
Ended == status \in {"finished", "eval_panic"}

\* the run is followed no further: the next instruction would take the stack
\* or the output beyond the bounds of the model
Exhausted ==
    /\ Running
    /\ \/ Instr.op \in {"DupPlusSP", "Store"} /\ Len(data) >= MaxData
       \/ Instr.op = "MovePlusSP" /\ data # <<>> /\ sp + Instr.i >= MaxData
       \/ /\ Instr.op = "Call" /\ Instr.label = "print"
          /\ Len(out) >= MaxOut
       \/ /\ Instr.op = "Call" /\ Instr.label # "print"
          /\ Instr.label \in DOMAIN pgrm.syms
          /\ Len(data) + 3 + pgrm.syms[Instr.label].nlocals > MaxData

\* C15: every run of a compiled program ends: it leaves the loop with pc
\* past the last instruction or it aborts (runs that outgrow the bounds of
\* the model are left aside)
C15_EveryExecutionEnds == Entered ~> (Ended \/ Exhausted)

-----------------------------------------------------------------------------
(* Frames *)

\* a Call of a user function has just been executed; the symbol it resolved
Called == status = "running" /\ last.op = "Call"
Callee == pgrm.syms[Instructions[last.pc + 1].label]

\* C16: a Call of a user function pushes the caller's fp, pc + 1 and the
\* arity of the callee's symbol, in this order, sets fp to the stack length
\* reached and pc to the symbol's location, and pushes nlocals zeros: on
\* entry the stack length is fp + nlocals and the three words below fp are
\* the saved fp, the return address and the arity
C16_CallFrameLayout ==
    Called
        => /\ Take(data, Len(last.data)) = last.data
           /\ sp = Len(last.data) + 3
           /\ pc = Callee.location
           /\ Len(data) = sp + Callee.nlocals
           /\ data[(sp - 3) + 1] = last.sp
           /\ data[(sp - 2) + 1] = last.pc + 1
           /\ data[(sp - 1) + 1] = Callee.narguments
           /\ \A i \in 0..(Callee.nlocals - 1) : data[sp + i + 1] = 0

\* a function of one parameter and one local was called from inside another
\* call: three saved words and a frame of two zeroed slots
C16_Witness ==
    /\ Called
    /\ last.sp > 0 /\ Len(last.calls) = 1
    /\ Callee.nlocals = 2 /\ Callee.narguments = 1
    /\ SubSeq(data, sp - 2, sp + 2) = <<last.sp, last.pc + 1, 1, 0, 0>>
    /\ pc = Callee.location /\ pc # last.pc + 1

\* the instruction at index i lies outside every function body
TopLevel(i) == \A f \in Functions : ~InBody(i, f)

\* C17: whenever the instruction about to be executed lies outside every
\* function body, fp = 0 and no call is unfinished (none of the stack's
\* words is a saved word of a call in progress), also for a program with a
\* function whose body ends without a Return
C17_TopLevelFrame ==
    (Running /\ TopLevel(pc)) => (sp = 0 /\ calls = <<>>)

\* a MovePlusSP has just been executed: the value it popped, the slot it
\* wrote and the stack it wrote it to
Stored == status = "running" /\ last.op = "MovePlusSP"
StoredValue == Top(last.data)
StoredIndex == last.sp + Instructions[last.pc + 1].i
StoredOn == Pop(last.data)

\* C18: MovePlusSP(i) pops the top value v and leaves stack[fp + i] = v; a
\* slot at or beyond the length after the pop is created by extending the
\* stack with zeros up to it; every other slot that existed keeps its
\* value; pc advances by one and fp is unchanged
C18_StoreSlot ==
    Stored
        => /\ StoredIndex >= 0 /\ StoredIndex < Len(data)
           /\ data[StoredIndex + 1] = StoredValue
           /\ Len(data) = (IF StoredIndex >= Len(StoredOn)
                           THEN StoredIndex + 1 ELSE Len(StoredOn))
           /\ \A j \in 0..(Len(data) - 1) :
                 j # StoredIndex
                    => data[j + 1] = (IF j < Len(StoredOn) THEN StoredOn[j + 1] ELSE 0)
           /\ pc = last.pc + 1
           /\ sp = last.sp

\* local b = 2 was stored into slot 1 of the empty top-level stack: slot 0
\* was created as a zero
C18_Witness ==
    /\ Stored
    /\ last.data = <<2>> /\ StoredIndex = 1
    /\ data = <<0, 2>>

-----------------------------------------------------------------------------
(* Registered labels *)

\* the inserts into the symbol table
LabelMarks == {m \in {marks[i] : i \in 1..Len(marks)} : m.kind = "label"}

\* the symbol compile_if registered for the if statement m
Registered(m) ==
    (CHOOSE l \in LabelMarks : l.name = m.name /\ l.owner = m.guard).symbol

\* C19 (as stated): the location registered for the label of an if is the
\* index of the instruction after the last instruction of the body
C19_IfLabelAddress ==
    \A m \in Ifs : Registered(m).location = m.after

\* a JumpIfNotZero has just popped 0 and resolved its label
BranchTaken ==
    /\ status = "running" /\ last.op = "JumpIfNotZero"
    /\ last.data # <<>> /\ Top(last.data) = 0

\* C19 (amended): the location registered is the index of the last
\* instruction of the body, the JumpIfNotZero itself when the body is
\* empty: one less than the index of the instruction after the body; and a
\* JumpIfNotZero that pops 0 sets pc to one more than the location of the
\* entry the symbol table holds under its label
C19_IfLabelAddressLast ==
    /\ \A m \in Ifs :
          /\ Registered(m).location = m.after - 1
          /\ Registered(m).location >= m.guard
          /\ m.after = m.entry => Registered(m).location = m.guard
          /\ Instructions[m.guard + 1] = JumpIfNotZero(m.name)
    /\ BranchTaken
          => pc = pgrm.syms[Instructions[last.pc + 1].label].location + 1

\* a program with an if of three statements and an if with an empty body
\* has been compiled, and the branch of an if whose label is still its own
\* has been taken over a body that is not empty
C19_Witness ==
    /\ status = "running"
    /\ \E m \in Ifs : m.after > m.entry + 3 /\ Registered(m).location = m.after - 1
    /\ \E m \in Ifs : m.after = m.entry /\ Registered(m).location = m.guard
    /\ BranchTaken
    /\ \E m \in Ifs :
          /\ m.guard = last.pc /\ m.after > m.entry
          /\ pgrm.syms[m.name] = Registered(m)
          /\ pc = Registered(m).location + 1

-----------------------------------------------------------------------------
(* Scopes *)

\* compilation was aborted
Aborted == status = "compile_panic" /\ NothingExecuted

\* the last n instructions of the compiled program
LastInstructions(n) == SubSeq(Instructions, Len(Instructions) - n + 1, Len(Instructions))

\* C20: a function declaration leaves the local-name table of the enclosing
\* scope as it was, and its body is compiled against a table that starts
\* with the parameters alone; so a reference inside the body to a local of
\* the enclosing scope, and a reference after the declaration to a name
\* declared inside it, abort compilation, and names and slots of the
\* enclosing scope are the same after the declaration as before it
C20_ScopeIsolation ==
    /\ \A f \in Functions :
          /\ f.restored = f.outer
          /\ DOMAIN f.seed = {f.parameters[i] : i \in 1..Len(f.parameters)}
          /\ \A i \in 1..Len(f.parameters) :
                (\A j \in (i + 1)..Len(f.parameters) :
                    f.parameters[j] # f.parameters[i])
                   => f.seed[f.parameters[i]] = i - 1
    /\ (ast \in {OuterLocalProgram, InnerLocalProgram, InnerParameterProgram}
            /\ status # "compiling")
          => Aborted
    /\ (ast = ScopeProgram /\ status # "compiling")
          => /\ status # "compile_panic"
             /\ LastInstructions(7) =
                   << DupPlusSP(0), DupPlusSP(1), DupPlusSP(2),
                      Store(8), Store(9), Call("f", 2), Call("print", 4) >>

\* ScopeProgram has been compiled: the table of the top level held a and d
\* before and after the declaration of f, whose body started from d and a
\* in other slots
C20_Witness ==
    /\ ast = ScopeProgram /\ status = "running"
    /\ \E f \in Functions :
          /\ f.outer = [n \in {"a", "d"} |-> IF n = "a" THEN 0 ELSE 1]
          /\ f.restored = f.outer
          /\ f.seed = [n \in {"a", "d"} |-> IF n = "d" THEN 0 ELSE 1]
    /\ Instructions[Len(Instructions)] = Call("print", 4)

-----------------------------------------------------------------------------
(* The caller's frame *)

\* an instruction has just been completed
Completed == status = "running" /\ last.op \notin {"none", "compile"}

\* the calls in progress before and after the instruction just executed
\* that were passed as many arguments as their callee declares
Matched == {i \in 1..Len(calls) : i <= Len(last.calls) /\ calls[i].k = calls[i].a}

\* the instruction just executed left every word below stack index frame
\* as it was
BelowKept(frame) ==
    /\ Len(data) >= frame
    /\ Take(data, frame) = Take(last.data, frame)

\* C21 (as stated): while a call that was passed as many arguments as its
\* callee declares is in progress, no instruction changes a stack word below
\* the frame base of that call; and after its Return every word below the
\* arguments is the word of before the Call
C21_CallerFrameIsolation ==
    /\ Completed => \A i \in Matched : BelowKept(calls[i].frame)
    /\ (Returned /\ EndedCall.k = EndedCall.a)
          => /\ Len(data) >= Len(EndedCall.base)
             /\ Take(data, Len(EndedCall.base)) = EndedCall.base

\* the stores: a MoveMinusSP or MovePlusSP just executed has left every
\* word below the frame pointer as it was
StoresAbove ==
    (Completed /\ last.op \in {"MoveMinusSP", "MovePlusSP"})
        => \A j \in 1..Len(last.data) :
              (j <= last.sp /\ (last.op = "MovePlusSP" => j < Len(last.data)))
                 => (j <= Len(data) /\ data[j] = last.data[j])

\* C21 (amended): MoveMinusSP and MovePlusSP write at or above the frame
\* pointer only; while a call that was passed as many arguments as its callee
\* declares is in progress and intact, no instruction changes a word below
\* its frame base; and after the Return of such a call every word below the
\* arguments is the word of before the Call
C21_CallerFrameIsolationIntact ==
    /\ StoresAbove
    /\ Completed
          => \A i \in Matched : calls[i].intact => BelowKept(calls[i].frame)
    /\ (Returned /\ EndedCall.k = EndedCall.a /\ EndedCall.intact)
          => /\ Len(data) >= Len(EndedCall.base)
             /\ Take(data, Len(EndedCall.base)) = EndedCall.base

\* inc(x) has returned into f(10, 3, 1): inc bound its argument and f stored
\* nothing yet, and the words below inc's argument, the frame of f and the
\* operand 4 below it, are those of before the call
C21_Witness ==
    /\ ast = NestedProgram
    /\ Returned /\ EndedCall.k = EndedCall.a /\ EndedCall.intact
    /\ Len(last.calls) = 2
    /\ EndedCall.args = <<10>>
    /\ Len(EndedCall.base) > last.calls[1].frame
    /\ EndedCall.base[1] = 4
    /\ Take(data, Len(EndedCall.base)) = EndedCall.base

-----------------------------------------------------------------------------
(* Calls with another number of arguments than parameters *)

\* the stack when the call that has just returned was made
StackAtCall == EndedCall.base \o EndedCall.args

\* the stack depth the rule gives after that Return
DepthAfter == ((Len(EndedCall.base) + EndedCall.k) - EndedCall.a) + 1

\* C22 (as stated): after the Return of a call that pushed k values to a
\* function of arity a, the stack depth is the depth before the k values
\* were pushed + k - a + 1
C22_ArityMismatch ==
    Returned => Len(data) = DepthAfter

\* C22 (amended): the same for a call that stayed intact; the Return removes
\* the a top words of the stack of the Call, whatever k is, and puts the
\* return value in their place, so that the depth is the round-trip depth
\* only when k = a
C22_ArityMismatchIntact ==
    (Returned /\ EndedCall.intact)
        => /\ Len(data) = DepthAfter
           /\ DepthAfter >= 1
           /\ data = Append(Take(StackAtCall, DepthAfter - 1), ReturnValue)
           /\ (Len(data) = Len(EndedCall.base) + 1) <=> (EndedCall.k = EndedCall.a)

\* two(8) has returned: passed one value for two parameters, its Return has
\* also removed the word below the 8
C22_Witness ==
    /\ ast = ArityProgram
    /\ Returned /\ EndedCall.intact
    /\ EndedCall.k = 1 /\ EndedCall.a = 2
    /\ EndedCall.args = <<8>>
    /\ Len(data) = Len(EndedCall.base)
    /\ Len(data) = DepthAfter

-----------------------------------------------------------------------------
(* Forward control flow *)

\* the index control is transferred to by the Jump or JumpIfNotZero at
\* index i when it is taken
Target(i) ==
    LET instruction == Instructions[i + 1]
        location == pgrm.syms[instruction.label].location
    IN  IF instruction.op = "Jump" THEN location ELSE location + 1

\* the compiled program holds no Call of a user function
NoUserCall ==
    \A i \in 1..Len(Instructions) :
        Instructions[i].op = "Call" => Instructions[i].label = "print"

\* C23: every Jump and JumpIfNotZero of the compiled program transfers
\* control to an index greater than its own; every completed instruction
\* other than a Call of a user function or a Return leaves pc greater than
\* it was; and a program without a Call of a user function never completes
\* a Return, so that it executes each instruction at most once
C23_ForwardControlFlow ==
    /\ status = "running"
          => \A i \in 0..(Len(Instructions) - 1) :
                (/\ Instructions[i + 1].op \in {"Jump", "JumpIfNotZero"}
                 /\ Instructions[i + 1].label \in DOMAIN pgrm.syms)
                   => Target(i) > i
    /\ (Completed /\ last.op \notin {"Call", "Return"}) => pc > last.pc
    /\ (Completed /\ NoUserCall) => (pc > last.pc /\ last.op # "Return")

-----------------------------------------------------------------------------
(* The slots of a frame *)

\* the symbol compile_declaration registered for the function f
RegisteredFunction(f) ==
    (CHOOSE l \in LabelMarks :
        /\ l.name = f.name /\ l.owner = f.guard
        /\ l.symbol.location = f.entry).symbol

\* the instruction at index i belongs to the body of f and to no function
\* declared inside it
OwnInstruction(i, f) ==
    /\ InBody(i, f)
    /\ \A g \in Functions :
          (g.guard > f.guard /\ g.after <= f.after)
             => ~(g.guard <= i /\ i < g.after)

\* the slot index the instruction uses, -1 when it uses none
SlotUsed(instruction) ==
    IF instruction.op \in {"DupPlusSP", "MovePlusSP"} THEN instruction.i
    ELSE IF instruction.op = "MoveMinusSP" THEN instruction.local_offset
    ELSE -1

\* C24: every slot index used by a DupPlusSP, MovePlusSP or MoveMinusSP of a
\* function body is smaller than the local count registered in the symbol of
\* the function
C24_FrameCoversSlots ==
    \A f \in Functions :
        \A i \in 0..(Len(Instructions) - 1) :
            OwnInstruction(i, f)
               => SlotUsed(Instructions[i + 1]) < RegisteredFunction(f).nlocals

-----------------------------------------------------------------------------
(* Label ownership *)

\* the symbol compile_declaration registered for the guard label of f
RegisteredDone(f) == Symbol(f.after, 0, 0)

\* C25: the symbol table handed to the VM holds, under the label of every
\* if statement and of every function guard, the symbol that the statement
\* itself registered; and a Jump or JumpIfNotZero that has just resolved its
\* label has gone where that symbol points
C25_LabelOwnership ==
    status = "running"
        => /\ \A m \in Ifs :
                 /\ m.name \in DOMAIN pgrm.syms
                 /\ pgrm.syms[m.name] = Registered(m)
           /\ \A f \in Functions :
                 /\ function_done_label(f.guard) \in DOMAIN pgrm.syms
                 /\ pgrm.syms[function_done_label(f.guard)] = RegisteredDone(f)
           /\ \A m \in Ifs :
                 (last.op = "JumpIfNotZero" /\ last.pc = m.guard
                     /\ Top(last.data) = 0)
                    => pc = Registered(m).location + 1
           /\ \A f \in Functions :
                 (last.op = "Jump" /\ last.pc = f.guard)
                    => pc = RegisteredDone(f).location

=============================================================================
